---- MODULE Spec2Model ----
(***************************************************************************)
(* Model of the build orchestrator of the dotnet-publish buildpack         *)
(* (build.go, func Build and func setupNuGetConfig).                       *)
(*                                                                         *)
(* One behaviour is one invocation of the BuildFunc returned by Build.     *)
(* The working directory is a flat map from file names to contents; the    *)
(* collaborators behind the interfaces (BuildpackYMLParser,                *)
(* CommandConfigParser, PublishProcess, SourceRemover) and the operating   *)
(* system calls (TempDir, ReadFile, WriteFile, Remove, RemoveAll) are      *)
(* nondeterministic in their outcome, as they are to Build.                *)
(***************************************************************************)
EXTENDS Integers, Sequences, FiniteSets, TLC

\* ------------------------------------------------------------------ bounds
MaxMajor == 1       \* major components 0..MaxMajor of the buildpack version
MaxBindings == 2    \* 0..MaxBindings bindings of type "nuget" on the platform

\* --------------------------------------------------------------- constants
Absent == "absent"                   \* content of a path that does not exist
NuGetConfigName == "NuGet.Config"    \* build.go:110, build.go:122
LowerNuGetConfigName == "nuget.config"
ExcludedFiles == {".dotnet_root"}    \* build.go:93

SourceNames == {"Program.cs", ".dotnet_root", NuGetConfigName}
OutNames == {"app.dll", NuGetConfigName}
Names == SourceNames \cup OutNames
TempNames == {"dotnet-publish-output1", "dotnet-publish-output2"}

\* The data of a binding's NuGet.Config.
CredentialData == "cred"
CredentialContents == {CredentialData, "cred-2"}

\* context.WorkingDir and os.Getenv("DOTNET_ROOT")
WorkingDirs == {"/workspace", "/workspace-2"}
DotnetRoots == {"", "some-existing-root-dir"}

NoError == [context |-> "", cause |-> ""]
Plain(cause) == [context |-> "", cause |-> cause]

\* fmt.Errorf("<context>: %w", err)
ErrorfWithoutContext(context, err) == err
Errorf(context, err) == [context |-> context, cause |-> err.cause]

\* Buildpack versions: a semantic version, or a string semver cannot parse.
InvalidVersion == [valid |-> FALSE, major |-> 0, minor |-> 0, patch |-> 0]
Versions ==
    {[valid |-> TRUE, major |-> m, minor |-> 2, patch |-> 1] : m \in 0..MaxMajor}
        \cup {InvalidVersion}

\* semver.Version.IncMajor
IncMajor(v) == [valid |-> TRUE, major |-> v.major + 1, minor |-> 0, patch |-> 0]

VARIABLES
    pc,           \* position of the invocation in Build
    result,       \* "running", "ok" (BuildResult{}, nil), "err", "panic"
    error,        \* the error Build returned
    env,          \* BP_DOTNET_PROJECT_PATH: [set, value]
    version,      \* context.BuildpackInfo.Version
    nBindings,    \* number of bindings of type "nuget" under context.Platform.Path
    bindingFiles, \* file names in the directory of the first such binding
    bindingData,  \* the content of that binding's NuGet.Config
    workingDir,   \* context.WorkingDir
    dotnetRoot,   \* the value of DOTNET_ROOT ("" when it is unset)
    preTmpPaths,  \* the paths under os.TempDir() before the invocation
    preWorkDir,   \* the working directory before the invocation
    workDir,      \* the working directory: name -> content
    tmpPaths,     \* the paths that exist under os.TempDir()
    tempDir,      \* the local tempDir ("" before it is assigned)
    outputDir,    \* the content of tempDir: name -> content
    published,    \* what PublishProcess.Execute wrote into tempDir
    projectPath,  \* the local projectPath
    flags,        \* the local flags
    deferred,     \* the deferred os.Remove calls (paths in workDir)
    stagedPath,   \* nugetConfigPath once setupNuGetConfig succeeded, else ""
    notices,      \* the versions named by the deprecation warnings logged
    calls,        \* the steps executed so far, with their outcome
    execArgs,     \* what PublishProcess.Execute received
    removeArgs,   \* what SourceRemover.Remove received
    observed      \* what the parsers returned and what os.RemoveAll was given

vars == <<pc, result, error, env, version, nBindings, bindingFiles, bindingData,
          workingDir, dotnetRoot, preTmpPaths, preWorkDir,
          workDir, tmpPaths, tempDir, outputDir, published, projectPath, flags,
          deferred, stagedPath, notices, calls, execArgs, removeArgs, observed>>

inputs == <<env, version, nBindings, bindingFiles, bindingData, workingDir,
            dotnetRoot, preTmpPaths, preWorkDir>>

EmptyDir == [n \in Names |-> Absent]
NoArgs == [called |-> FALSE]
NothingObserved == [parsedPath |-> "none", parsedFlags |-> "none",
                    removedAll |-> "none"]

Call(step, ok) == [step |-> step, ok |-> ok]

\* ------------------------------------------------------- file operations
\* ioutil.WriteFile(path, data, 0644) that succeeds: creates or truncates.
WriteFileLowerCase(wd, name, data) ==
    [n \in Names |-> IF n = LowerNuGetConfigName THEN data ELSE wd[n]]
WriteFile(wd, name, data) == [wd EXCEPT ![name] = data]

\* os.Remove(path): when it succeeds (ok) the entry is gone; when it fails
\* (the path is missing, the directory does not permit the unlink, the entry
\* is a directory that is not empty) the entry stays as it is. The deferred
\* call discards the error.
OsRemove(wd, name, ok) == IF ok THEN [wd EXCEPT ![name] = Absent] ELSE wd

\* The deferred calls run last-in first-out when Build returns: the working
\* directories they may leave, each os.Remove succeeding or failing.
RECURSIVE RunDeferred(_, _)
RunDeferred(wd, d) ==
    IF d = <<>> THEN {wd}
    ELSE UNION {RunDeferred(OsRemove(wd, d[Len(d)], ok), SubSeq(d, 1, Len(d) - 1)) :
                   ok \in BOOLEAN}

Init ==
    /\ pc = "start"
    /\ result = "running"
    /\ error = NoError
    /\ env \in {[set |-> FALSE, value |-> ""],
                [set |-> TRUE, value |-> ""],
                [set |-> TRUE, value |-> "env/project/path"]}
    /\ version \in Versions
    /\ nBindings \in 0..MaxBindings
    /\ bindingFiles \in IF nBindings = 0 THEN {{}}
                        ELSE {{}, {NuGetConfigName}, {LowerNuGetConfigName}}
    /\ bindingData \in IF NuGetConfigName \in bindingFiles
                       THEN CredentialContents
                       ELSE {CredentialData}
    /\ workingDir \in WorkingDirs
    /\ dotnetRoot \in DotnetRoots
    /\ preWorkDir \in {w \in [Names -> {Absent, "orig"}] :
                          \A n \in Names \ SourceNames : w[n] = Absent}
    /\ workDir = preWorkDir
    /\ preTmpPaths \in {{}, {"dotnet-publish-output1"}}
    /\ tmpPaths = preTmpPaths
    /\ tempDir = ""
    /\ outputDir = EmptyDir
    /\ published = EmptyDir
    /\ projectPath = ""
    /\ flags = <<>>
    /\ deferred = <<>>
    /\ stagedPath = ""
    /\ notices = <<>>
    /\ calls = <<>>
    /\ execArgs = NoArgs
    /\ removeArgs = NoArgs
    /\ observed = NothingObserved

\* The statements in the order of the orchestrator state machine of the
\* design (flags and staging before the output location).
NextPcFlagsFirst(p) ==
    CASE p = "start" -> "flags"
      [] p = "flags" -> "stage"
      [] p = "stage" -> "tempdir"
      [] p = "tempdir" -> "publish"
      [] p = "publish" -> "remove"
      [] p = "remove" -> "rmtemp"

\* The statements with the source removal left out.
NextPcWithoutRemove(p) ==
    CASE p = "start" -> "tempdir"
      [] p = "tempdir" -> "flags"
      [] p = "flags" -> "stage"
      [] p = "stage" -> "publish"
      [] p = "publish" -> "rmtemp"
      [] p = "remove" -> "rmtemp"

\* The sequence of Build's statements: where control goes after the step at p
\* has succeeded.
NextPc(p) ==
    CASE p = "start" -> "tempdir"
      [] p = "tempdir" -> "flags"
      [] p = "flags" -> "stage"
      [] p = "stage" -> "publish"
      [] p = "publish" -> "remove"
      [] p = "remove" -> "rmtemp"

\* return packit.BuildResult{}, err  /  return packit.BuildResult{}, nil:
\* the deferred calls d run on the working directory wd.
Return(res, e, wd, d) ==
    /\ pc' = "returned"
    /\ result' = res
    /\ error' = e
    /\ workDir' \in RunDeferred(wd, d)
    /\ deferred' = <<>>

\* ------------------------------------------------ lines 45-56 of build.go
\* os.LookupEnv("BP_DOTNET_PROJECT_PATH"): ok reports whether the variable is
\* set, an empty value included.
LookupEnvNonEmpty(e) == e.set /\ e.value # ""
LookupEnvOk(e) == e.set

\* What BuildpackYMLParser.ParseProjectPath may return.
ParseResults ==
    {[path |-> "", err |-> NoError],
     [path |-> "some/project/path", err |-> NoError],
     [path |-> "", err |-> Plain("parse-error")]}

\* if projectPath != "" { semver.MustParse(version).IncMajor(); logger... }
WarnsDeprecation(path) == path # ""

ResolveProjectPath ==
    /\ pc = "start"
    /\ IF LookupEnvOk(env)
       THEN /\ projectPath' = env.value
            /\ pc' = NextPc("start")
            /\ UNCHANGED <<result, error, workDir, deferred, notices, calls,
                           observed>>
       ELSE \E r \in ParseResults :
            /\ projectPath' = r.path
            /\ observed' = [observed EXCEPT !.parsedPath = r.path]
            /\ calls' = Append(calls, Call("ParseProjectPath", r.err = NoError))
            /\ IF r.err # NoError
               THEN /\ Return("err", r.err, workDir, deferred)
                    /\ UNCHANGED notices
               ELSE IF WarnsDeprecation(r.path) /\ ~version.valid
               THEN \* semver.MustParse panics; the panic unwinds Build
                    /\ Return("panic", Plain("Invalid Semantic Version"),
                              workDir, deferred)
                    /\ UNCHANGED notices
               ELSE /\ notices' = IF WarnsDeprecation(r.path)
                                  THEN Append(notices, IncMajor(version))
                                  ELSE notices
                    /\ pc' = NextPc("start")
                    /\ UNCHANGED <<result, error, workDir, deferred>>
    /\ UNCHANGED <<inputs, tmpPaths, tempDir, outputDir, published, flags,
                   stagedPath, execArgs, removeArgs>>

\* ------------------------------------------------ lines 58-61 of build.go
\* ioutil.TempDir("", "dotnet-publish-output"): a fresh directory, or an error.
\* The name is one that no existing path has.
AnyTempNames(paths) == TempNames
FreshTempNames(paths) == TempNames \ paths

CreateTempDir ==
    /\ pc = "tempdir"
    /\ \/ \E t \in FreshTempNames(tmpPaths) :
            /\ tempDir' = t
            /\ tmpPaths' = tmpPaths \cup {t}
            /\ calls' = Append(calls, Call("TempDir", TRUE))
            /\ pc' = NextPc("tempdir")
            /\ UNCHANGED <<result, error, workDir, deferred>>
       \/ /\ calls' = Append(calls, Call("TempDir", FALSE))
          /\ Return("err",
                    Errorf("could not create temp directory", Plain("mkdir-error")),
                    workDir, deferred)
          /\ UNCHANGED <<tempDir, tmpPaths>>
    /\ UNCHANGED <<inputs, outputDir, published, projectPath, flags, stagedPath,
                   notices, execArgs, removeArgs, observed>>

\* ------------------------------------------------ lines 63-66 of build.go
\* What CommandConfigParser.ParseFlagsFromEnvVar may return.
FlagResults ==
    {[flags |-> <<>>, err |-> NoError],
     [flags |-> <<"--verbosity", "normal">>, err |-> NoError],
     [flags |-> <<>>, err |-> Plain("flags-error")]}

ParseFlags ==
    /\ pc = "flags"
    /\ \E r \in FlagResults :
        /\ flags' = r.flags
        /\ observed' = [observed EXCEPT !.parsedFlags = r.flags]
        /\ calls' = Append(calls, Call("ParseFlagsFromEnvVar", r.err = NoError))
        /\ IF r.err # NoError
           THEN Return("err", r.err, workDir, deferred)
           ELSE /\ pc' = NextPc("flags")
                /\ UNCHANGED <<result, error, workDir, deferred>>
    /\ UNCHANGED <<inputs, tmpPaths, tempDir, outputDir, published, projectPath,
                   stagedPath, notices, execArgs, removeArgs>>

\* ------------------------------------------------ lines 73-83 of build.go
\* servicebindings.Resolver.ResolveOne("nuget", "", platformDir) returns a
\* binding when exactly one matches and an error otherwise; Build stages the
\* file only when err == nil and drops the error otherwise.
ResolveOneAtMostOne(n) == n <= 1
ResolveOneOk(n) == n = 1

\* ioutil.ReadFile(filepath.Join(nugetConfig.Path, "NuGet.Config")): the
\* lookup is by the exact name.
ReadFileAnyCase(files, name) == name \in files \/ LowerNuGetConfigName \in files
ReadFileOk(files, name) == name \in files

\* What ioutil.WriteFile may do to workDir/NuGet.Config: write the data, fail
\* before touching the file, or fail after it created or truncated the file.
WriteOutcomes == {"ok", "fail", "fail-truncated"}

StageCredentials ==
    /\ pc = "stage"
    /\ IF ~ResolveOneOk(nBindings)
       THEN /\ pc' = NextPc("stage")
            /\ UNCHANGED <<result, error, workDir, deferred, stagedPath, calls>>
       ELSE IF ~ReadFileOk(bindingFiles, NuGetConfigName)
       THEN /\ calls' = Append(calls, Call("setupNuGetConfig", FALSE))
            /\ Return("err", Plain("read-error"), workDir, deferred)
            /\ UNCHANGED stagedPath
       ELSE \E w \in WriteOutcomes :
            /\ calls' = Append(calls, Call("setupNuGetConfig", w = "ok"))
            /\ IF w = "ok"
               THEN /\ workDir' = WriteFile(workDir, NuGetConfigName, bindingData)
                    /\ stagedPath' = NuGetConfigName
                    /\ deferred' = Append(deferred, NuGetConfigName)
                    /\ pc' = NextPc("stage")
                    /\ UNCHANGED <<result, error>>
               ELSE /\ Return("err", Plain("write-error"),
                              IF w = "fail-truncated"
                              THEN WriteFile(workDir, NuGetConfigName, "")
                              ELSE workDir,
                              deferred)
                    /\ UNCHANGED stagedPath
    /\ UNCHANGED <<inputs, tmpPaths, tempDir, outputDir, published, projectPath,
                   flags, notices, execArgs, removeArgs, observed>>

\* ------------------------------------------------ lines 85-89 of build.go
\* PublishProcess.Execute(workingDir, rootDir, projectPath, outputPath, flags)
\* either populates outputPath or fails; it leaves the working directory as
\* it is.
PublishOutputs ==
    {o \in [Names -> {Absent, "pub"}] : \A n \in Names \ OutNames : o[n] = Absent}

\* publishProcess.Execute(context.WorkingDir, os.Getenv("DOTNET_ROOT"),
\*                        projectPath, tempDir, flags)
\* seen and outputExisted are the working directory and the existence of the
\* output path at the moment of the call.
ExecuteCallShifted(wd, root, path, out, fl) ==
    [called |-> TRUE, workingDir |-> wd, rootDir |-> path, projectPath |-> root,
     outputPath |-> out, flags |-> fl, seen |-> workDir,
     outputExisted |-> out \in tmpPaths]
ExecuteCall(wd, root, path, out, fl) ==
    [called |-> TRUE, workingDir |-> wd, rootDir |-> root, projectPath |-> path,
     outputPath |-> out, flags |-> fl, seen |-> workDir,
     outputExisted |-> out \in tmpPaths]

Publish ==
    /\ pc = "publish"
    /\ execArgs' = ExecuteCall(workingDir, dotnetRoot, projectPath, tempDir, flags)
    /\ \/ \E o \in PublishOutputs :
            /\ outputDir' = o
            /\ published' = o
            /\ calls' = Append(calls, Call("Execute", TRUE))
            /\ pc' = NextPc("publish")
            /\ UNCHANGED <<result, error, workDir, deferred>>
       \/ /\ calls' = Append(calls, Call("Execute", FALSE))
          /\ Return("err", Plain("publish-error"), workDir, deferred)
          /\ UNCHANGED <<outputDir, published>>
    /\ UNCHANGED <<inputs, tmpPaths, tempDir, projectPath, flags, stagedPath,
                   notices, removeArgs, observed>>

\* ------------------------------------------------ lines 91-96 of build.go
\* SourceRemover.Remove(workingDir, publishOutputDir, excludedFiles...):
\* deletes every entry of the working directory whose name is not excluded
\* and moves the entries of the output directory into it.
Replaced(wd, out, excluded) ==
    [n \in Names |->
        IF n \in excluded /\ wd[n] # Absent THEN wd[n] ELSE out[n]]

\* The entries Remove may delete.
Deletable(wd, excluded) == {n \in Names \ excluded : wd[n] # Absent}

Deleted(wd, D) == [n \in Names |-> IF n \in D THEN Absent ELSE wd[n]]

\* sourceRemover.Remove(context.WorkingDir, tempDir, ".dotnet_root")
RemoveCallSwapped(wd, out, excluded) ==
    [called |-> TRUE, workingDir |-> out, publishOutputDir |-> wd,
     excludedFiles |-> excluded]
RemoveCall(wd, out, excluded) ==
    [called |-> TRUE, workingDir |-> wd, publishOutputDir |-> out,
     excludedFiles |-> excluded]

RemoveSource ==
    /\ pc = "remove"
    /\ removeArgs' = RemoveCall(workingDir, tempDir, ExcludedFiles)
    /\ \/ /\ calls' = Append(calls, Call("Remove", TRUE))
          /\ workDir' = Replaced(workDir, outputDir, ExcludedFiles)
          /\ outputDir' = EmptyDir
          /\ pc' = NextPc("remove")
          /\ UNCHANGED <<result, error, deferred>>
       \/ \* a deletion fails: Remove aborts with part of the tree deleted
          \E D \in SUBSET Deletable(workDir, ExcludedFiles) :
            /\ D # Deletable(workDir, ExcludedFiles) \/ D = {}
            /\ calls' = Append(calls, Call("Remove", FALSE))
            /\ Return("err", Plain("remove-error"), Deleted(workDir, D), deferred)
            /\ UNCHANGED outputDir
    /\ UNCHANGED <<inputs, tmpPaths, tempDir, published, projectPath, flags,
                   stagedPath, notices, execArgs, observed>>

\* ----------------------------------------------- lines 98-103 of build.go
\* os.RemoveAll(tempDir), then return packit.BuildResult{}, nil
\* if err != nil { return ..., fmt.Errorf("could not remove temp directory: %w", err) }
RemoveAllErrIgnored(ok) == NoError
RemoveAllErr(ok) == IF ok THEN NoError ELSE Plain("rmdir-error")

RemoveTempDir ==
    /\ pc = "rmtemp"
    /\ \E ok \in BOOLEAN :
        /\ calls' = Append(calls, Call("RemoveAll", ok))
        /\ observed' = [observed EXCEPT !.removedAll = tempDir]
        /\ tmpPaths' = IF ok THEN tmpPaths \ {tempDir} ELSE tmpPaths
        /\ outputDir' = IF ok THEN EmptyDir ELSE outputDir
        /\ IF RemoveAllErr(ok) # NoError
           THEN Return("err",
                       Errorf("could not remove temp directory", RemoveAllErr(ok)),
                       workDir, deferred)
           ELSE Return("ok", NoError, workDir, deferred)
    /\ UNCHANGED <<inputs, tempDir, published, projectPath, flags, stagedPath,
                   notices, execArgs, removeArgs>>

Next ==
    \/ ResolveProjectPath
    \/ CreateTempDir
    \/ ParseFlags
    \/ StageCredentials
    \/ Publish
    \/ RemoveSource
    \/ RemoveTempDir

Spec == Init /\ [][Next]_vars

TypeOK ==
    /\ pc \in {"start", "tempdir", "flags", "stage", "publish", "remove",
               "rmtemp", "returned"}
    /\ result \in {"running", "ok", "err", "panic"}
    /\ workDir \in [Names -> {Absent, "orig", "pub", ""} \cup CredentialContents]
    /\ tempDir \in TempNames \cup {""}
    /\ stagedPath \in {"", NuGetConfigName}

\* =================================================================== claims
Called(step) == \E i \in 1..Len(calls) : calls[i].step = step
Succeeded(step) == \E i \in 1..Len(calls) : calls[i] = Call(step, TRUE)
FailedStep(step) == \E i \in 1..Len(calls) : calls[i] = Call(step, FALSE)
Returned == pc = "returned"
Staged == stagedPath # ""

\* C1: whenever a NuGet credential file was staged, workingDir/NuGet.Config
\* is absent when Build returns, with success or with the error of any later
\* step.
C1_StagedFileAbsentAtReturn ==
    (Returned /\ Staged) => workDir[NuGetConfigName] = Absent

\* C2: if PublishProcess.Execute returns an error, SourceRemover.Remove is
\* never invoked and the working directory at return equals the pre-build
\* working directory, for every pre-build working directory (one that held a
\* NuGet.Config of its own included).
C2_PublishFailureLeavesWorkDir ==
    (Returned /\ FailedStep("Execute")) =>
        /\ ~removeArgs.called
        /\ ~Called("Remove")
        /\ workDir = preWorkDir

\* C3 (as stated): the steps run in the order ResolveProjectPath, ResolveFlags,
\* StageCredentials, CreateOutputLocation, Publish, ReplaceSource,
\* RemoveOutputLocation, each after the previous one succeeded; the output
\* location is not created before flags and staging succeeded.
DesignRank(step) ==
    CASE step = "ParseProjectPath" -> 1
      [] step = "ParseFlagsFromEnvVar" -> 2
      [] step = "setupNuGetConfig" -> 3
      [] step = "TempDir" -> 4
      [] step = "Execute" -> 5
      [] step = "Remove" -> 6
      [] step = "RemoveAll" -> 7

BuildRank(step) ==
    CASE step = "ParseProjectPath" -> 1
      [] step = "TempDir" -> 2
      [] step = "ParseFlagsFromEnvVar" -> 3
      [] step = "setupNuGetConfig" -> 4
      [] step = "Execute" -> 5
      [] step = "Remove" -> 6
      [] step = "RemoveAll" -> 7

InOrder(rank(_)) ==
    \A i, j \in 1..Len(calls) : i < j => rank(calls[i].step) < rank(calls[j].step)

\* Every step but the last one executed returned no error.
Gated == \A i \in 1..Len(calls) : i < Len(calls) => calls[i].ok

C3_DesignOrder ==
    /\ InOrder(DesignRank)
    /\ Gated
    /\ tempDir # "" => Succeeded("ParseFlagsFromEnvVar")
    /\ tempDir # "" => pc \notin {"flags", "stage"}

\* C3 (amended): the steps run in the order ResolveProjectPath,
\* CreateOutputLocation, ResolveFlags, StageCredentials (optional), Publish,
\* ReplaceSource, RemoveOutputLocation; a step runs only after every step
\* before it that ran returned no error, and no step but StageCredentials
\* (and ParseProjectPath when the environment variable is set) is skipped;
\* the output location exists before flags are resolved and credentials are
\* staged.
C3_BuildOrder ==
    /\ InOrder(BuildRank)
    /\ Gated
    /\ Called("TempDir") => (LookupEnvOk(env) \/ Succeeded("ParseProjectPath"))
    /\ Called("ParseFlagsFromEnvVar") => Succeeded("TempDir")
    /\ Called("setupNuGetConfig") => Succeeded("ParseFlagsFromEnvVar")
    /\ pc \in {"flags", "stage"} => tempDir \in tmpPaths
    /\ Called("Execute") => Succeeded("ParseFlagsFromEnvVar")
    /\ Called("Remove") => Succeeded("Execute")
    /\ Called("RemoveAll") => Succeeded("Remove")

C3_Witness ==
    /\ Returned /\ result = "ok" /\ Staged
    /\ Len(calls) = 7

\* C4: each step is executed at most once, and once a step has returned an
\* error no later step is executed; a binding lookup that finds several
\* "nuget" bindings is such an error of the staging step.
C4_FailFast ==
    /\ \A i, j \in 1..Len(calls) : i # j => calls[i].step # calls[j].step
    /\ Gated
    /\ nBindings > 1 =>
          ~(Called("Execute") \/ Called("Remove") \/ Called("RemoveAll"))

\* C5: whenever Build returns success, the output location it created no
\* longer exists.
C5_SuccessRemovesTempDir ==
    (Returned /\ result = "ok") => (tempDir # "" /\ tempDir \notin tmpPaths)

C5_Witness ==
    /\ Returned /\ result = "ok"
    /\ Succeeded("RemoveAll")
    /\ tempDir \in TempNames /\ tempDir \notin tmpPaths

\* C6: after a successful run the working directory holds every file the
\* publish step wrote, the excluded files that were present, and no other
\* file of the original working directory.
C6_WorkDirIsPublishOutput ==
    (Returned /\ result = "ok") =>
        \A n \in Names :
            /\ published[n] # Absent /\ n \notin ExcludedFiles =>
                  workDir[n] = published[n]
            /\ n \in ExcludedFiles /\ preWorkDir[n] # Absent =>
                  workDir[n] = preWorkDir[n]
            /\ published[n] = Absent /\ n \notin ExcludedFiles =>
                  workDir[n] = Absent

\* C7: when BP_DOTNET_PROJECT_PATH is set (the empty string included), the
\* buildpack.yml parser is never invoked, no deprecation notice is logged and
\* the value of the variable is the project path.
C7_EnvOverridesLegacy ==
    env.set =>
        /\ ~Called("ParseProjectPath")
        /\ notices = <<>>
        /\ pc # "start" => projectPath = env.value
        /\ execArgs.called => execArgs.projectPath = env.value

C7_Witness ==
    /\ env.set /\ env.value = ""
    /\ execArgs.called /\ execArgs.projectPath = ""
    /\ notices = <<>>

\* C8: when BP_DOTNET_PROJECT_PATH is unset and buildpack.yml yields a
\* non-empty project path, exactly one deprecation notice is logged and it
\* names the version with the major incremented; with an empty path none is
\* logged.
C8_DeprecationNoticeOnce ==
    (~env.set /\ Succeeded("ParseProjectPath")) =>
        IF projectPath # ""
        THEN /\ Len(notices) = 1
             /\ notices[1].major = version.major + 1
        ELSE notices = <<>>

\* C9: with more than one "nuget" binding the build fails: Build returns an
\* error and neither publish nor source replacement is executed.
C9_AmbiguousBindingFails ==
    nBindings > 1 =>
        /\ ~execArgs.called
        /\ ~removeArgs.called
        /\ Returned => result # "ok"

\* C10: with exactly one "nuget" binding whose directory has no file named
\* exactly NuGet.Config, the working directory is never written, publish and
\* source replacement are never executed, Build never returns success, and
\* once the staging step is reached Build returns the error of the read.
C10_MissingCredentialFileFails ==
    (nBindings = 1 /\ NuGetConfigName \notin bindingFiles) =>
        /\ workDir = preWorkDir
        /\ ~execArgs.called
        /\ ~removeArgs.called
        /\ pc \notin {"publish", "remove", "rmtemp"}
        /\ Returned => result # "ok"
        /\ (Returned /\ Succeeded("ParseFlagsFromEnvVar")) =>
              /\ result = "err"
              /\ error = Plain("read-error")
              /\ FailedStep("setupNuGetConfig")

C10_Witness ==
    /\ nBindings = 1 /\ bindingFiles = {LowerNuGetConfigName}
    /\ Returned /\ result = "err"
    /\ FailedStep("setupNuGetConfig")
    /\ preWorkDir[NuGetConfigName] # Absent

\* C11: without a "nuget" binding nothing is staged, the staging step hands
\* over to the publish step without an error, and no step of Build but the
\* source removal changes workingDir/NuGet.Config.
C11_NoBindingNoStaging ==
    [][nBindings = 0 =>
          /\ ~Staged /\ deferred = <<>> /\ ~Called("setupNuGetConfig")
          /\ pc = "stage" => (pc' = "publish" /\ result' = "running")
          /\ pc # "remove" => workDir'[NuGetConfigName] = workDir[NuGetConfigName]
          /\ Returned => ~Staged' /\ workDir' = workDir]_vars

C11_Witness ==
    /\ nBindings = 0
    /\ Returned /\ FailedStep("Execute")
    /\ preWorkDir[NuGetConfigName] # Absent
    /\ workDir[NuGetConfigName] = preWorkDir[NuGetConfigName]

\* C12: the error Build returns is the error of the step that failed, which
\* is the last step executed: unchanged from the buildpack.yml parser, the
\* flag parser, the publish process and the source remover, wrapped with
\* "could not create temp directory" / "could not remove temp directory" from
\* TempDir and RemoveAll; and Build returns an error whenever a step failed.
ErrorOfStep(step) ==
    CASE step = "ParseProjectPath" -> [context |-> "", cause |-> "parse-error"]
      [] step = "ParseFlagsFromEnvVar" -> [context |-> "", cause |-> "flags-error"]
      [] step = "setupNuGetConfig" ->
            IF ReadFileOk(bindingFiles, NuGetConfigName)
            THEN [context |-> "", cause |-> "write-error"]
            ELSE [context |-> "", cause |-> "read-error"]
      [] step = "Execute" -> [context |-> "", cause |-> "publish-error"]
      [] step = "Remove" -> [context |-> "", cause |-> "remove-error"]
      [] step = "TempDir" ->
            [context |-> "could not create temp directory", cause |-> "mkdir-error"]
      [] step = "RemoveAll" ->
            [context |-> "could not remove temp directory", cause |-> "rmdir-error"]

C12_FirstErrorReturned ==
    /\ \A i \in 1..Len(calls) :
          ~calls[i].ok =>
              /\ i = Len(calls)
              /\ Returned /\ result = "err"
              /\ error = ErrorOfStep(calls[i].step)
    /\ (Returned /\ result = "err") =>
          (calls # <<>> /\ ~calls[Len(calls)].ok)
    /\ (Returned /\ result = "ok") => error = NoError

C12_Witness ==
    /\ Returned /\ result = "err"
    /\ FailedStep("TempDir")
    /\ error.context = "could not create temp directory"

\* C13: when removing the output location fails after the source replacement,
\* Build returns that error, wrapped, and the working directory is left as
\* the replacement made it: the publish output plus the excluded files that
\* were there.
C13_NoRollbackOfReplacement ==
    (Returned /\ FailedStep("RemoveAll")) =>
        /\ result = "err"
        /\ error = [context |-> "could not remove temp directory",
                    cause |-> "rmdir-error"]
        /\ Succeeded("Remove")
        /\ \A n \in Names :
              workDir[n] =
                  IF n \in ExcludedFiles /\ preWorkDir[n] # Absent
                  THEN preWorkDir[n]
                  ELSE published[n]

\* C14: every invocation ends by returning success or an error; it never
\* panics.
C14_NeverPanics ==
    Returned => result \in {"ok", "err"}

\* C15: PublishProcess.Execute receives the working directory of the
\* invocation, the value of DOTNET_ROOT, the flags the flag parser returned
\* and the resolved project path: the value of BP_DOTNET_PROJECT_PATH when it
\* is set, else the path the buildpack.yml parser returned.
C15_ExecuteArguments ==
    execArgs.called =>
        /\ execArgs.workingDir = workingDir
        /\ execArgs.rootDir = dotnetRoot
        /\ execArgs.flags = observed.parsedFlags
        /\ execArgs.projectPath =
              IF env.set THEN env.value ELSE observed.parsedPath

C15_Witness ==
    /\ execArgs.called
    /\ ~env.set /\ execArgs.projectPath = "some/project/path"
    /\ execArgs.rootDir = "some-existing-root-dir"
    /\ execArgs.flags = <<"--verbosity", "normal">>

\* C16: the path of the output location is no entry of the exclusion set
\* given to the source remover and is no path that existed before the
\* invocation.
C16_TempDirIsFresh ==
    /\ tempDir # "" =>
          /\ tempDir \notin preTmpPaths
          /\ tempDir \notin ExcludedFiles
    /\ removeArgs.called =>
          /\ removeArgs.publishOutputDir \notin removeArgs.excludedFiles
          /\ removeArgs.publishOutputDir \notin preTmpPaths

C16_Witness ==
    /\ removeArgs.called
    /\ preTmpPaths # {}
    /\ removeArgs.publishOutputDir \in TempNames \ preTmpPaths

\* C17: one output location is used throughout: Execute's output path,
\* Remove's publish output directory and the directory given to os.RemoveAll
\* are the path TempDir returned, which exists when Execute is invoked; Remove
\* receives the working directory of the invocation.
C17_OneOutputLocation ==
    /\ execArgs.called =>
          /\ execArgs.outputPath = tempDir /\ tempDir \in TempNames
          /\ execArgs.outputExisted
          /\ Succeeded("TempDir")
    /\ removeArgs.called =>
          /\ removeArgs.publishOutputDir = execArgs.outputPath
          /\ removeArgs.workingDir = workingDir
    /\ Called("RemoveAll") =>
          /\ observed.removedAll = removeArgs.publishOutputDir
          /\ observed.removedAll = execArgs.outputPath

C17_Witness ==
    /\ Called("RemoveAll")
    /\ observed.removedAll = "dotnet-publish-output2"
    /\ execArgs.outputPath = "dotnet-publish-output2"
    /\ removeArgs.publishOutputDir = "dotnet-publish-output2"

\* C18: with exactly one "nuget" binding that has a NuGet.Config, the file
\* workingDir/NuGet.Config holds the binding's data when Execute is invoked
\* and while Execute runs; the removal is pending until Build returns.
C18_CredentialPresentDuringPublish ==
    (nBindings = 1 /\ NuGetConfigName \in bindingFiles) =>
        /\ execArgs.called =>
              /\ Staged
              /\ execArgs.seen[NuGetConfigName] = bindingData
        /\ pc = "publish" =>
              /\ workDir[NuGetConfigName] = bindingData
              /\ deferred = <<NuGetConfigName>>

C18_Witness ==
    /\ nBindings = 1 /\ bindingData = "cred-2"
    /\ preWorkDir[NuGetConfigName] = Absent
    /\ execArgs.called /\ execArgs.seen[NuGetConfigName] = "cred-2"
    /\ Returned /\ workDir[NuGetConfigName] = Absent

\* C19: when Build returns an error after the output location was created
\* and before the source removal succeeded, the output location still exists;
\* it is gone only where Remove succeeded and RemoveAll followed.
C19_TempDirLeftOnError ==
    /\ (Returned /\ Succeeded("TempDir") /\ ~Succeeded("Remove")) =>
          (result # "ok" /\ tempDir \in tmpPaths)
    /\ (tempDir # "" /\ tempDir \notin tmpPaths) =>
          (Succeeded("Remove") /\ Succeeded("RemoveAll"))

C19_Witness ==
    /\ Returned /\ result = "err"
    /\ FailedStep("ParseFlagsFromEnvVar")
    /\ tempDir \in tmpPaths \ preTmpPaths

\* C20: when the staging itself fails, the working directory holds no
\* NuGet.Config that this invocation created or changed.
C20_FailedStagingLeavesNothing ==
    (Returned /\ FailedStep("setupNuGetConfig")) =>
        workDir[NuGetConfigName] = preWorkDir[NuGetConfigName]

====
